---------------------------- MODULE Spec2Model ----------------------------
(***************************************************************************)
(* A model of the ai-linter review orchestration:                          *)
(*   AILinter.run / runCodexReview     (bin/src/ai-linter.js, lines 1-292) *)
(*   GithubHelper                      (unnamed/part_003, lines 286-625)   *)
(*   GithubHelper, the other source    (unnamed/part_002)                  *)
(*                                                                         *)
(* One invocation of the command line tool is one behaviour.  The inputs   *)
(* of the program (options, platform responses, what the child process     *)
(* does, signals sent to the parent) are drawn nondeterministically at the *)
(* step that consumes them.                                                *)
(***************************************************************************)
EXTENDS Integers, Sequences, FiniteSets, TLC

VARIABLES
    pc,         \* position of AILinter.run() / runCodexReview()
    opts,       \* this.options: the part the control flow reads
    sess,       \* the promise executor's closure and the child process
    gh,         \* GithubHelper: #currentIdentity and the running resolution
    join,       \* the platform request awaited beside the identity (Promise.all)
    reviews,    \* the reviews of the pull request on the platform
    work,       \* reconciliation: matched reviews and their deletions
    canUse,     \* result of canUseRequestChanges
    requests,   \* platform API requests issued so far, in order
    trace,      \* stage events of run(), in order
    signals,    \* SIGINT/SIGTERM delivered to the parent so far
    prompt,     \* the task brief generateCodexPrompt returned
    printed,    \* levels at which Logger has printed a line (see LoggedLevels)
    calls       \* calls of GithubHelper's methods made by a client other than run()

vars == <<pc, opts, sess, gh, join, reviews, work, canUse, requests, trace, signals,
          prompt, printed, calls>>

(***************************************************************************)
(* Bounds of the model.                                                    *)
(***************************************************************************)
MaxExitCode == 2
MaxSignals == 2

ExitCodes == 0..MaxExitCode

ParentSignals == {"SIGINT", "SIGTERM"}
\* Signals a child can be terminated by (close reports signal, code null).
ChildSignals == {"SIGINT", "SIGTERM", "SIGKILL"}
\* Negative errno values ChildProcess reports as the close code when
\* the spawn failed asynchronously: ENOENT, EACCES, EAGAIN.
SpawnErrnos == {-2, -13, -11}

(***************************************************************************)
(* Values.  A JavaScript number-or-null is a set with at most one element. *)
(***************************************************************************)
NoError == [kind |-> "none", code |-> {}]
\* Variant: an interruption is rejected with the error of a failed exit.
InterruptedAsExit == [kind |-> "exit", code |-> {}]

\* new Error('Process was interrupted')
InterruptedError == [kind |-> "interrupted", code |-> {}]
\* Variant: the message does not name the exit code.
ExitErrorNoCode(code) == [kind |-> "exit", code |-> {}]

ExitError(code) == [kind |-> "exit", code |-> code]
SpawnError(errno) == [kind |-> "spawn", code |-> {errno}]
SpawnThrow == [kind |-> "spawn", code |-> {}]

ExitStatuses ==
    [code : {{c} : c \in ExitCodes}, signal : {"null"}]
        \cup [code : {{}}, signal : ChildSignals]

NoStatus == [code |-> {}, signal |-> "null"]

IdleSession ==
    [ child         |-> "none",     \* none, spawnfail, alive, exited, closed
      status        |-> NoStatus,   \* exit status of a child that has exited
      codexMissing  |-> FALSE,      \* codexBin names no file
      spawnCalls    |-> 0,          \* calls of spawn()
      wasRunning    |-> FALSE,      \* a child process has been started
      wasInterrupted|-> FALSE,
      killed        |-> FALSE,      \* codexProcess.killed
      killsSent     |-> 0,          \* SIGTERM sent to the child by kill()
      handled       |-> 0,          \* signals the cleanup listener has taken
      listeners     |-> [s \in ParentSignals |-> 0],
      removals      |-> 0,          \* removeListener calls that removed one
      promise       |-> "none",     \* none, pending, resolved, rejected
      error         |-> NoError,    \* rejection reason
      reports       |-> << >> ]     \* outcome lines logged by the handlers

(***************************************************************************)
(* Promise settlement: the first resolve/reject wins, later ones are       *)
(* ignored.                                                                *)
(***************************************************************************)
resolve(s) ==
    IF s.promise = "pending" THEN [s EXCEPT !.promise = "resolved"] ELSE s

reject(s, e) ==
    IF s.promise = "pending"
    THEN [s EXCEPT !.promise = "rejected", !.error = e]
    ELSE s

\* this.log(<outcome line>) of the close and error handlers
report(s, outcome) == [s EXCEPT !.reports = Append(@, outcome)]

\* process.on(sig, cleanup)
addListener(s, sig) == [s EXCEPT !.listeners[sig] = @ + 1]

\* process.removeListener(sig, cleanup): removes one registration if any
removeListener(s, sig) ==
    IF s.listeners[sig] > 0
    THEN [s EXCEPT !.listeners[sig] = @ - 1, !.removals = @ + 1]
    ELSE s

\* Variant: the SIGTERM registration is left in place.
removeOnlySigint(s) == removeListener(s, "SIGINT")

removeBoth(s) == removeListener(removeListener(s, "SIGINT"), "SIGTERM")

\* codexProcess.kill('SIGTERM'): delivered while the child's handle is open
\* (the child has not been reaped by the parent), and then killed is set.
kill(s) ==
    IF s.child \in {"alive", "exited"}
    THEN [s EXCEPT !.killed = TRUE, !.killsSent = @ + 1]
    ELSE s

\* Variant: the flag is set but nothing is sent to the child.
cleanupNoKill(s) == [s EXCEPT !.wasInterrupted = TRUE]

\* Variant: kill() is called whether or not the child was killed before.
cleanupNoGuard(s) == kill([s EXCEPT !.wasInterrupted = TRUE])

\* Variant: the listener settles the session itself, without waiting for
\* the child's 'close'.
cleanupSettles(s) ==
    LET s1 == [s EXCEPT !.wasInterrupted = TRUE]
        s2 == IF s1.child # "none" /\ ~s1.killed THEN kill(s1) ELSE s1
    IN  reject(report(s2, "interrupted"), InterruptedError)

\* const cleanup = () => { ... }
cleanup(s) ==
    LET s1 == [s EXCEPT !.wasInterrupted = TRUE]
    IN  IF s1.child # "none" /\ ~s1.killed THEN kill(s1) ELSE s1

\* Variant: the exit code is looked at before the interruption.
onCloseCodeFirst(s, code, signal) ==
    LET s1 == removeBoth(s)
    IN  IF code = {0}
        THEN resolve(report(s1, "completed"))
        ELSE IF s1.wasInterrupted \/ signal = "SIGTERM" \/ signal = "SIGINT"
        THEN reject(report(s1, "interrupted"), InterruptedError)
        ELSE reject(report(s1, "failed"), ExitError(code))

\* Variant: `!code` in place of `code === 0`, so that a null code passes.
onCloseFalsyCode(s, code, signal) ==
    LET s1 == removeBoth(s)
    IN  IF s1.wasInterrupted \/ signal = "SIGTERM" \/ signal = "SIGINT"
        THEN reject(report(s1, "interrupted"), InterruptedError)
        ELSE IF code = {0} \/ code = {}
        THEN resolve(report(s1, "completed"))
        ELSE reject(report(s1, "failed"), ExitError(code))

\* Variant: only an interruption the listener has taken counts; the signal
\* that ended the child is not looked at.
onCloseOwnSignalOnly(s, code, signal) ==
    LET s1 == removeBoth(s)
    IN  IF s1.wasInterrupted
        THEN reject(report(s1, "interrupted"), InterruptedError)
        ELSE IF code = {0}
        THEN resolve(report(s1, "completed"))
        ELSE reject(report(s1, "failed"), ExitError(code))

\* codexProcess.on('close', (code, signal) => { ... })
onClose(s, code, signal) ==
    LET s1 == removeBoth(s)
    IN  IF s1.wasInterrupted \/ signal = "SIGTERM" \/ signal = "SIGINT"
        THEN reject(report(s1, "interrupted"), InterruptedError)
        ELSE IF code = {0}
        THEN resolve(report(s1, "completed"))
        ELSE reject(report(s1, "failed"), ExitError(code))

\* codexProcess.on('error', (error) => { ... })
onError(s, error) ==
    reject(report(removeBoth(s), "failed"), error)


(***************************************************************************)
(* The platform.  A login or a name is a sequence of tokens, so that       *)
(* String.includes is a test for a contiguous subsequence.                 *)
(***************************************************************************)
Account(id, login, type, name) ==
    [id |-> id, login |-> login, type |-> type, name |-> name]

Alice == Account(1, <<"alice">>, "User", <<"Alice">>)
LintBot == Account(2, <<"lint", "[bot]">>, "Bot", << >>)
DepBot == Account(3, <<"dep", "[bot]">>, "Bot", << >>)
Accounts == {Alice, LintBot, DepBot}

\* The GitHub App whose installation token or JWT the tool may hold.  The
\* id of an App is not the id of its bot user.
LintApp == [id |-> 4, slug |-> <<"lint">>, name |-> <<"lint">>]

Review(id, state, user) == [id |-> id, state |-> state, user |-> user]

ReviewUniverse ==
    { Review(1, "PENDING", LintBot),
      Review(2, "PENDING", Alice),
      Review(3, "PENDING", DepBot),
      Review(4, "COMMENTED", LintBot),
      Review(5, "APPROVED", Alice) }

\* The reviews of the universe that are drafts, and those that were submitted
PendingReviews == {r \in ReviewUniverse : r.state = "PENDING"}
SubmittedReviews == ReviewUniverse \ PendingReviews

Req(op, arg) == [op |-> op, arg |-> arg]

(***************************************************************************)
(* GithubHelper: identity resolution                                       *)
(***************************************************************************)
NoIdentity == [type |-> "none", id |-> 0, login |-> << >>, name |-> << >>]

Identity(type, id, login, name) ==
    [type |-> type, id |-> id, login |-> login, name |-> name]

\* The repository holds two sources of the class GithubHelper that
\* ai-linter.js imports: the one of part_003 and the one of part_002.
HelperFiles == {"part_003", "part_002"}

\* The AI_LINTER_* environment variables the part_002 helper reads:
\*   unset    no AI_LINTER_APP_INSTALLATION_ID
\*   partial  the installation id, but not both of BOT_ID and BOT_LOGIN
\*   unnamed  installation id, BOT_ID and BOT_LOGIN
\*   named    those and AI_LINTER_BOT_NAME
Environments == {"unset", "partial", "unnamed", "named"}

NewHelper ==
    [ file  |-> "part_003",             \* the source of the class
      env   |-> "unset",                \* process.env, as far as it is read
      currentIdentity |-> NoIdentity,   \* #currentIdentity
      idpc  |-> "idle",    \* idle, user, app, inst1, inst2, getInst, botUser
      idres |-> "none",    \* the promise of #getCurrentIdentity
      probes |-> << >>,    \* strategies tried, in order
      methods |-> << >>,   \* #getInstallationId: <<method, result>>, in order
      botUser |-> "none" ] \* users.getByUsername({slug}[bot]): none, found, missing

\* { type: 'user', ...user }: a type field of the user record replaces 'user'.
userIdentity(rec, hasType) ==
    Identity(IF hasType THEN rec.type ELSE "user", rec.id, rec.login, rec.name)

\* { type: 'app', id: app.id, login: app.slug, name: app.name }
appIdentity(app) == Identity("app", app.id, app.slug, app.name)

\* botUser.name || app.name: an empty name is falsy
botIdentity(botUser, app) ==
    Identity("bot", botUser.id, botUser.login,
             IF botUser.name # << >> THEN botUser.name ELSE app.name)

\* the synthetic identity used when the {slug}[bot] lookup fails
fallbackBotIdentity(app) ==
    Identity("bot", app.id, app.slug \o <<"[bot]">>, app.name)

\* part_002: { type: 'bot', id: parseInt(botId), login: botLogin,
\*             name: botName || botLogin }
envBotIdentity(env) ==
    Identity("bot", LintBot.id, LintBot.login,
             IF env = "named" THEN LintApp.name ELSE LintBot.login)

\* this.#currentIdentity = identity; return this.#currentIdentity
resolved(g, identity) ==
    [g EXCEPT !.currentIdentity = identity, !.idpc = "idle", !.idres = "ok"]

\* throw new Error('Unable to determine authentication identity')
unresolved(g) == [g EXCEPT !.idpc = "idle", !.idres = "failed"]

\* Variant: the installation/bot probe is tried before the application probe.
nextStrategyBotFirst(strategy) ==
    CASE strategy = "user" -> "bot"
      [] strategy = "bot" -> "app"
      [] OTHER -> "none"

\* The order in which #getCurrentIdentity tries the strategies: the
\* strategy tried after `strategy` has yielded null.
nextStrategy(strategy) ==
    CASE strategy = "user" -> "app"
      [] strategy = "app" -> "bot"
      [] OTHER -> "none"

firstStrategy == "user"

\* The first request a strategy issues.
firstRequest(strategy) ==
    CASE strategy = "user" -> Req("users.getAuthenticated", 0)
      [] strategy = "app" -> Req("apps.getAuthenticated", 0)
      [] OTHER -> Req("apps.getRepoInstallation", 0)

firstStep(strategy) ==
    CASE strategy = "user" -> "user"
      [] strategy = "app" -> "app"
      [] OTHER -> "inst1"

\* Variant: the failure of a probe is not caught and ends the resolution.
fallThroughThrows(g, reqs, strategy) == <<unresolved(g), reqs>>

\* A strategy has yielded null: try the next one, or give up.
\* Yields the helper and the requests after the step.  The bot probe of
\* part_002 reads the environment only and awaits nothing, so its result
\* is there in the same step.
RECURSIVE fallThrough(_, _, _)
fallThrough(g, reqs, strategy) ==
    LET n == nextStrategy(strategy)
    IN  IF n = "none"
        THEN <<unresolved(g), reqs>>
        ELSE IF n = "bot" /\ g.file = "part_002"
        THEN LET g1 == [g EXCEPT !.probes = Append(@, n)]
             IN  IF g.env \in {"unnamed", "named"}
                 THEN <<resolved(g1, envBotIdentity(g.env)), reqs>>
                 ELSE fallThrough(g1, reqs, n)
        ELSE <<[g EXCEPT !.idpc = firstStep(n), !.probes = Append(@, n)],
               Append(reqs, firstRequest(n))>>

\* Variant: the stored identity is not looked at.
getCurrentIdentityNoCache(g, reqs) ==
    <<[g EXCEPT !.idpc = firstStep(firstStrategy), !.idres = "pending",
                !.probes = Append(@, firstStrategy)],
      Append(reqs, firstRequest(firstStrategy))>>

\* The synchronous part of a call of #getCurrentIdentity.
getCurrentIdentity(g, reqs) ==
    IF g.currentIdentity # NoIdentity
    THEN <<[g EXCEPT !.idres = "ok"], reqs>>
    ELSE <<[g EXCEPT !.idpc = firstStep(firstStrategy), !.idres = "pending",
                     !.probes = Append(@, firstStrategy)],
           Append(reqs, firstRequest(firstStrategy))>>


(***************************************************************************)
(* GithubHelper: pending reviews                                           *)
(***************************************************************************)
\* String.prototype.includes on token sequences
includes(s, sub) ==
    \E i \in 0..(Len(s) - Len(sub)) :
        \A k \in 1..Len(sub) : s[i + k] = sub[k]

\* Variant: reviews of every state are candidates.
filterReviewsOfAnyState(rs, identity) ==
    IF identity.type = "app"
    THEN {r \in rs :
            \/ r.user.id = identity.id
            \/ r.user.login = identity.login
            \/ r.user.type = "Bot"}
    ELSE IF identity.type = "bot"
    THEN {r \in rs :
            \/ r.user.login = identity.login
            \/ (r.user.type = "Bot" /\ includes(r.user.login, identity.name))}
    ELSE {r \in rs : r.user.id = identity.id}

\* Variant: a review with an id beyond those of the reviews that past
\* invocations left is passed over.
filterReviewsLeftBehind(rs, identity) ==
    LET pendingReviews == {r \in rs : r.state = "PENDING" /\ r.id <= 5}
    IN  IF identity.type = "app"
        THEN {r \in pendingReviews :
                \/ r.user.id = identity.id
                \/ r.user.login = identity.login
                \/ r.user.type = "Bot"}
        ELSE IF identity.type = "bot"
        THEN {r \in pendingReviews :
                \/ r.user.login = identity.login
                \/ (r.user.type = "Bot" /\ includes(r.user.login, identity.name))}
        ELSE {r \in pendingReviews : r.user.id = identity.id}

\* #filterReviewsByIdentity
filterReviewsByIdentity(rs, identity) ==
    LET pendingReviews == {r \in rs : r.state = "PENDING"}
    IN  IF identity.type = "app"
        THEN {r \in pendingReviews :
                \/ r.user.id = identity.id
                \/ r.user.login = identity.login
                \/ r.user.type = "Bot"}
        ELSE IF identity.type = "bot"
        THEN {r \in pendingReviews :
                \/ r.user.login = identity.login
                \/ (r.user.type = "Bot" /\ includes(r.user.login, identity.name))}
        ELSE {r \in pendingReviews : r.user.id = identity.id}

\* The reviews of a set in the order the platform lists them (by id).
RECURSIVE inOrder(_)
inOrder(rs) ==
    IF rs = {} THEN << >>
    ELSE LET first == CHOOSE r \in rs : \A q \in rs : r.id <= q.id
         IN  <<first>> \o inOrder(rs \ {first})

\* Variant: the deletions are not all started; only the first one is.
deleteRequestsFirstOnly(matched) ==
    [i \in 1..1 |-> Req("pulls.deletePendingReview", matched[i].id)]

\* pendingReviews.map(review => this.#deletePendingReview(..., review.id)):
\* every deletion request is issued before any response is awaited
deleteRequests(matched) ==
    [i \in 1..Len(matched) |-> Req("pulls.deletePendingReview", matched[i].id)]

\* Promise.all([<platform request>, this.#getCurrentIdentity(...)]): the
\* state of the platform request, and the PR author it returned
\* and, for #canAppRequestChanges, the installation lookup and the account
\* it returned
NoAccount == [type |-> "none", id |-> 0]

NoJoin ==
    [ op      |-> "none",      \* the request: pulls.listReviews, pulls.get
      fetch   |-> "none",      \* none, pending, ok, failed
      author  |-> 0,           \* pr.data.user.id
      install |-> "none",      \* none, pending, ok, failed
      account |-> NoAccount ]  \* installation.data.account

NoWork == [matched |-> << >>, waiting |-> {}, deleted |-> {}, failed |-> {}]

(***************************************************************************)
(* Calls of GithubHelper's public methods                                  *)
(***************************************************************************)
MaxCalls == 2

\* A call: the method called and the state of the call's own
\* #getCurrentIdentity promise (the fields idpc, idres, probes, methods and
\* botUser of a helper record; #currentIdentity itself is the helper's).
\* args: which of repoOwner, repoName, prNumber the client passed;
\* returned: what the call has returned without awaiting anything.
CallArgs == [owner : BOOLEAN, name : BOOLEAN, pr : BOOLEAN]

IdleCall ==
    [ op       |-> "none",
      args     |-> [owner |-> TRUE, name |-> TRUE, pr |-> TRUE],
      returned |-> "none",      \* none, false, undefined
      g        |-> NewHelper ]

\* A call that a client has made and that is over
SpentCall == [IdleCall EXCEPT !.op = "spent"]

NoCalls == [c \in 1..MaxCalls |-> IdleCall]

(***************************************************************************)
(* Logger and the task brief                                               *)
(***************************************************************************)
\* The levels the model keeps track of; lines of the other levels (info,
\* success, warning) are printed too and leave no mark in `printed`.
LoggedLevels == {"error", "debug"}

\* Logger.log(message, type), for the lines of one step: a debug line is
\* dropped unless verbose is set; every other line is printed.
log(p, verbose, types) ==
    p \cup {type \in types \cap LoggedLevels : verbose \/ type # "debug"}

\* The verdict keywords a brief lets the agent submit the review with.
Verdicts == {"REQUEST_CHANGES", "COMMENT"}

NoPrompt == [rules |-> "none", prNumber |-> FALSE, events |-> {}]

\* generateCodexPrompt(rulesPath, prInfo): the text names the rules file
\* and the PR, and tells the agent to submit with REQUEST_CHANGES if it
\* found issues and with COMMENT otherwise (or if it cannot request
\* changes).  The function has two parameters.
generateCodexPrompt(rulesPath, prInfo) ==
    [rules |-> rulesPath, prNumber |-> prInfo, events |-> Verdicts]

(***************************************************************************)
(* The initial state: the tool has been constructed (the credentials are   *)
(* set, the repository owner and name are known) and run() is called.      *)
(***************************************************************************)
Options == [dryRun : BOOLEAN, prNumber : BOOLEAN, verbose : BOOLEAN]

Init ==
    /\ pc = "findRulesFile"
    /\ opts \in Options
    /\ sess = IdleSession
    /\ gh \in {[NewHelper EXCEPT !.file = f, !.env = e] :
                    f \in HelperFiles, e \in Environments}
    /\ gh.file = "part_003" => gh.env = "unset"
    /\ join = NoJoin
    /\ reviews \in {p \cup s : p \in SUBSET PendingReviews, s \in {{}, SubmittedReviews}}
    /\ work = NoWork
    /\ canUse = FALSE
    /\ requests = << >>
    /\ trace = << >>
    /\ signals = 0
    /\ prompt = NoPrompt
    /\ printed = log({}, opts.verbose, {"debug"})
    /\ calls = NoCalls

Exited == pc \in {"exit0", "exit1", "aborted"}

\* A rejection is being propagated to run()'s catch: nothing else runs
\* before the handler that is waiting has taken it.
Rejecting ==
    /\ pc \in {"reconcile_wait", "permission_wait"}
    /\ (join.fetch = "failed" \/ gh.idres = "failed")

(***************************************************************************)
(* AILinter.run, up to the review                                          *)
(***************************************************************************)
\* Variant: permission evaluation is awaited before the reconciliation.
stageAfterSwapped(stage) ==
    CASE stage = "findRulesFile" -> "getPRInfo"
      [] stage = "getPRInfo" -> "permission"
      [] stage = "permission" -> "reconcile"
      [] stage = "reconcile" -> "brief"

\* The order of the awaited stages in the body of run()
stageAfter(stage) ==
    CASE stage = "findRulesFile" -> "getPRInfo"
      [] stage = "getPRInfo" -> "reconcile"
      [] stage = "reconcile" -> "permission"
      [] stage = "permission" -> "brief"

\* const rulesPath = await this.findRulesFile(): the file is there, or it
\* is not and the tool goes on with the default rules
FindRulesFile ==
    /\ pc = "findRulesFile"
    /\ pc' = stageAfter("findRulesFile")
    /\ \E found \in BOOLEAN :
          printed' = log(printed, opts.verbose,
                         IF found THEN {"info"}
                                  ELSE {"warning", "debug", "success"})
    /\ UNCHANGED <<opts, sess, gh, join, reviews, work, canUse, requests, trace, signals, prompt, calls>>

\* const prInfo = await this.getPRInfo()
GetPRInfo ==
    /\ pc = "getPRInfo"
    /\ IF opts.prNumber
       THEN pc' = stageAfter("getPRInfo") /\ opts' = opts /\ printed' = printed
       ELSE \E revparseOk \in BOOLEAN, refIsPull \in BOOLEAN :
               /\ printed' = log(printed, opts.verbose, {"debug"})
               /\ IF ~revparseOk
                  THEN pc' = "exit1" /\ opts' = opts
                  ELSE /\ pc' = stageAfter("getPRInfo")
                       /\ opts' = [opts EXCEPT !.prNumber = refIsPull]
    /\ UNCHANGED <<sess, gh, join, reviews, work, canUse, requests, trace, signals, prompt, calls>>


(***************************************************************************)
(* Pending-review reconciliation                                           *)
(***************************************************************************)
\* Variant: the list is awaited before identity resolution is started.
ReconcileStartSequential ==
    /\ pc = "reconcile"
    /\ requests' = Append(requests, Req("pulls.listReviews", 0))
    /\ join' = [NoJoin EXCEPT !.op = "pulls.listReviews", !.fetch = "pending"]
    /\ trace' = Append(trace, "reconcile_start")
    /\ pc' = "reconcile_wait"
    /\ UNCHANGED <<opts, sess, gh, reviews, work, canUse, signals, prompt, printed, calls>>

\* #removeAllPendingReviewsFromTool -> removeAllPendingReviewsFromTool ->
\* #getPendingReviewsFromTool, up to the await of Promise.all
\* In part_002 removeAllPendingReviewsFromTool begins with `return;`.
ReconcileStart ==
    /\ pc = "reconcile"
    /\ IF gh.file = "part_002"
       THEN /\ trace' = trace \o <<"reconcile_start", "reconcile_done">>
            /\ pc' = stageAfter("reconcile")
            /\ UNCHANGED <<gh, requests, join>>
       ELSE /\ LET res == getCurrentIdentity(gh, Append(requests, Req("pulls.listReviews", 0)))
               IN  gh' = res[1] /\ requests' = res[2]
            /\ join' = [NoJoin EXCEPT !.op = "pulls.listReviews", !.fetch = "pending"]
            /\ trace' = Append(trace, "reconcile_start")
            /\ pc' = "reconcile_wait"
    /\ UNCHANGED <<opts, sess, reviews, work, canUse, signals, prompt, printed, calls>>

\* The response to pulls.listReviews.  Without a PR number the request
\* names no pull request and fails.
ListReviewsResponse ==
    /\ pc = "reconcile_wait" /\ join.fetch = "pending" /\ ~Rejecting
    /\ \E ok \in BOOLEAN :
          join' = [join EXCEPT !.fetch = IF ok /\ opts.prNumber THEN "ok" ELSE "failed"]
    /\ UNCHANGED <<pc, opts, sess, gh, reviews, work, canUse, requests, trace, signals, prompt, printed, calls>>

\* Variant: the wrapper's catch marks the spinner and does not throw again.
ReconcileSwallowed ==
    /\ pc = "reconcile_wait" /\ Rejecting
    /\ pc' = stageAfter("reconcile")
    /\ trace' = Append(trace, "reconcile_done")
    /\ UNCHANGED <<opts, sess, gh, join, reviews, work, canUse, requests, signals, prompt, printed, calls>>

\* Promise.all rejects; #removeAllPendingReviewsFromTool rethrows; run()
\* logs the error and calls process.exit(1)
ReconcileRejected ==
    /\ pc = "reconcile_wait" /\ Rejecting
    /\ pc' = "exit1"
    /\ UNCHANGED <<opts, sess, gh, join, reviews, work, canUse, requests, trace, signals, prompt, calls>>
    /\ printed' = log(printed, opts.verbose, {"error", "debug"})

\* Both results are there: filter, then issue the deletions
ReconcileJoined ==
    /\ pc = "reconcile_wait" /\ join.fetch = "ok" /\ gh.idres = "ok"
    /\ LET matched == inOrder(filterReviewsByIdentity(reviews, gh.currentIdentity))
       IN  IF Len(matched) = 0
           THEN /\ pc' = stageAfter("reconcile")
                /\ trace' = Append(trace, "reconcile_done")
                /\ UNCHANGED <<work, requests>>
           ELSE /\ pc' = "deleting"
                /\ requests' = requests \o deleteRequests(matched)
                /\ work' = [NoWork EXCEPT !.matched = matched,
                                !.waiting = {matched[i].id : i \in 1..Len(matched)}]
                /\ trace' = trace
    /\ UNCHANGED <<opts, sess, gh, join, reviews, canUse, signals, prompt, calls>>
    /\ printed' = log(printed, opts.verbose, {"debug", "info"})

\* Variant: a failed deletion is not caught and fails the batch.
DeleteResponseThrows ==
    /\ pc = "deleting"
    /\ \E id \in work.waiting, ok \in BOOLEAN :
          /\ work' = [work EXCEPT !.waiting = @ \ {id},
                         !.deleted = IF ok THEN @ \cup {id} ELSE @,
                         !.failed = IF ok THEN @ ELSE @ \cup {id}]
          /\ reviews' = IF ok THEN {r \in reviews : r.id # id} ELSE reviews
          /\ IF ~ok
             THEN pc' = "exit1" /\ trace' = trace
             ELSE IF work.waiting = {id}
             THEN pc' = stageAfter("reconcile") /\ trace' = Append(trace, "reconcile_done")
             ELSE pc' = pc /\ trace' = trace
    /\ UNCHANGED <<opts, sess, gh, join, canUse, requests, signals, prompt, printed, calls>>

\* #deletePendingReview: the response to one deletion; a failure is logged
\* and yields false.  After the last one Promise.allSettled resolves.
DeleteResponse ==
    /\ pc = "deleting"
    /\ \E id \in work.waiting, ok \in BOOLEAN :
          /\ work' = [work EXCEPT !.waiting = @ \ {id},
                         !.deleted = IF ok THEN @ \cup {id} ELSE @,
                         !.failed = IF ok THEN @ ELSE @ \cup {id}]
          /\ reviews' = IF ok THEN {r \in reviews : r.id # id} ELSE reviews
          /\ IF work.waiting = {id}
             THEN pc' = stageAfter("reconcile") /\ trace' = Append(trace, "reconcile_done")
             ELSE pc' = pc /\ trace' = trace
          /\ printed' = log(printed, opts.verbose, IF ok THEN {"debug"} ELSE {"error"})
    /\ UNCHANGED <<opts, sess, gh, join, canUse, requests, signals, prompt, calls>>

(***************************************************************************)
(* Identity resolution: the responses to the probes' requests              *)
(***************************************************************************)
Resolving == ~Exited /\ ~Rejecting /\ gh.idres = "pending"

\* #tryGetUserIdentity
UserProbeResponse ==
    /\ Resolving /\ gh.idpc = "user"
    /\ \E ok \in BOOLEAN, hasType \in BOOLEAN :
          IF ok
          THEN gh' = resolved(gh, userIdentity(Alice, hasType)) /\ requests' = requests
          ELSE LET res == fallThrough(gh, requests, "user")
               IN  gh' = res[1] /\ requests' = res[2]
    /\ UNCHANGED <<pc, opts, sess, join, reviews, work, canUse, trace, signals, prompt, printed, calls>>

\* #tryGetAppIdentity
AppProbeResponse ==
    /\ Resolving /\ gh.idpc = "app"
    /\ \E ok \in BOOLEAN :
          IF ok
          THEN gh' = resolved(gh, appIdentity(LintApp)) /\ requests' = requests
          ELSE LET res == fallThrough(gh, requests, "app")
               IN  gh' = res[1] /\ requests' = res[2]
    /\ UNCHANGED <<pc, opts, sess, join, reviews, work, canUse, trace, signals, prompt, printed, calls>>

\* #getInstallationId, method 1: apps.getRepoInstallation
InstallationByRepoResponse ==
    /\ Resolving /\ gh.idpc = "inst1"
    /\ \E ok \in BOOLEAN :
          IF ok
          THEN /\ gh' = [gh EXCEPT !.idpc = "getInst",
                                   !.methods = Append(@, <<"repo", "id">>)]
               /\ requests' = Append(requests, Req("apps.getInstallation", 0))
          ELSE /\ gh' = [gh EXCEPT !.idpc = "inst2",
                                   !.methods = Append(@, <<"repo", "error">>)]
               /\ requests' = Append(requests, Req("apps.listReposAccessibleToInstallation", 0))
    /\ UNCHANGED <<pc, opts, sess, join, reviews, work, canUse, trace, signals, prompt, printed, calls>>

\* What #getInstallationId does from the answer of method 2 on: method 3
\* (the authorization header) is tried when the answer lists no repository;
\* a failed request is caught by the outer catch, which returns null.
methodsAfterList(outcome, header) ==
    IF outcome = "repositories" THEN << <<"list", "id">> >>
    ELSE IF outcome = "error" THEN << <<"list", "error">> >>
    ELSE << <<"list", "none">>, <<"header", header>> >>

\* #getInstallationId, method 2 (apps.listReposAccessibleToInstallation) and
\* method 3.  Reading the header yields an id, or none, or throws; what is
\* thrown is caught by #getInstallationId, which logs an error and returns
\* null.
InstallationByListResponse ==
    /\ Resolving /\ gh.idpc = "inst2"
    /\ \E outcome \in {"repositories", "empty", "error"},
          header \in {"id", "none", "error"} :
          LET ms == methodsAfterList(outcome, header)
              last == ms[Len(ms)]
          IN  /\ IF last[2] = "id"
                 THEN /\ gh' = [gh EXCEPT !.idpc = "getInst", !.methods = @ \o ms]
                      /\ requests' = Append(requests, Req("apps.getInstallation", 0))
                 ELSE LET res == fallThrough(gh, requests, "bot")
                      IN  /\ gh' = [res[1] EXCEPT !.methods = @ \o ms]
                          /\ requests' = res[2]
              /\ printed' = log(printed, opts.verbose,
                                IF last[2] = "error" THEN {"error"} ELSE {})
    /\ UNCHANGED <<pc, opts, sess, join, reviews, work, canUse, trace, signals, prompt, calls>>

\* #tryGetBotIdentity: the response to apps.getInstallation
GetInstallationResponse ==
    /\ Resolving /\ gh.idpc = "getInst"
    /\ \E ok \in BOOLEAN :
          /\ IF ok
             THEN /\ gh' = [gh EXCEPT !.idpc = "botUser"]
                  /\ requests' = Append(requests, Req("users.getByUsername", 0))
             ELSE LET res == fallThrough(gh, requests, "bot")
                  IN  gh' = res[1] /\ requests' = res[2]
          /\ printed' = log(printed, opts.verbose, IF ok THEN {} ELSE {"error"})
    /\ UNCHANGED <<pc, opts, sess, join, reviews, work, canUse, trace, signals, prompt, calls>>

\* Variant: a failed lookup of the bot account ends the strategy with null.
BotUserResponseNoFallback ==
    /\ Resolving /\ gh.idpc = "botUser"
    /\ \E ok \in BOOLEAN :
          gh' = IF ok THEN resolved([gh EXCEPT !.botUser = "found"],
                                    botIdentity(LintBot, LintApp))
                      ELSE unresolved([gh EXCEPT !.botUser = "missing"])
    /\ UNCHANGED <<pc, opts, sess, join, reviews, work, canUse, requests, trace, signals, prompt, printed, calls>>

\* #tryGetBotIdentity: the response to users.getByUsername
BotUserResponse ==
    /\ Resolving /\ gh.idpc = "botUser"
    /\ \E ok \in BOOLEAN :
          gh' = IF ok THEN resolved([gh EXCEPT !.botUser = "found"],
                                    botIdentity(LintBot, LintApp))
                      ELSE resolved([gh EXCEPT !.botUser = "missing"],
                                    fallbackBotIdentity(LintApp))
    /\ UNCHANGED <<pc, opts, sess, join, reviews, work, canUse, requests, trace, signals, prompt, printed, calls>>


(***************************************************************************)
(* Permission evaluation: canUseRequestChanges                             *)
(***************************************************************************)
\* Variant: `===` in place of `!==` for an installation on a user account.
canAppRequestChangesSameAuthor(accountType, accountId, authorId) ==
    IF accountType = "Organization" THEN TRUE
    ELSE IF accountType = "User" THEN authorId = accountId
    ELSE FALSE

\* #canAppRequestChanges, given the installation's account
canAppRequestChanges(accountType, accountId, authorId) ==
    IF accountType = "Organization" THEN TRUE
    ELSE IF accountType = "User" THEN authorId # accountId
    ELSE FALSE

\* #canUseRequestChanges -> canUseRequestChanges, up to the await
PermissionStart ==
    /\ pc = "permission"
    /\ IF ~opts.prNumber
       THEN /\ canUse' = FALSE
            /\ trace' = trace \o <<"permission_start", "permission_done">>
            /\ pc' = stageAfter("permission")
            /\ UNCHANGED <<gh, join, requests>>
       ELSE /\ LET res == getCurrentIdentity(gh, Append(requests, Req("pulls.get", 0)))
               IN  gh' = res[1] /\ requests' = res[2]
            /\ join' = [NoJoin EXCEPT !.op = "pulls.get", !.fetch = "pending"]
            /\ trace' = Append(trace, "permission_start")
            /\ pc' = "permission_wait"
            /\ canUse' = canUse
    /\ UNCHANGED <<opts, sess, reviews, work, signals, prompt, calls>>
    /\ printed' = IF ~opts.prNumber THEN log(printed, opts.verbose, {"debug"})
                                     ELSE printed

\* The response to pulls.get
PullResponse ==
    /\ pc = "permission_wait" /\ join.fetch = "pending" /\ ~Rejecting
    /\ \E ok \in BOOLEAN, author \in Accounts :
          join' = IF ok THEN [join EXCEPT !.fetch = "ok", !.author = author.id]
                        ELSE [join EXCEPT !.fetch = "failed"]
    /\ UNCHANGED <<pc, opts, sess, gh, reviews, work, canUse, requests, trace, signals, prompt, printed, calls>>

\* Variant: the catch logs the error and throws it again.
PermissionRethrows ==
    /\ pc = "permission_wait" /\ Rejecting
    /\ pc' = "exit1"
    /\ UNCHANGED <<opts, sess, gh, join, reviews, work, canUse, requests, trace, signals, prompt, printed, calls>>

\* catch (err) { Logger.error(...); return false; }
PermissionRejected ==
    /\ pc = "permission_wait" /\ Rejecting
    /\ canUse' = FALSE
    /\ trace' = Append(trace, "permission_done")
    /\ pc' = stageAfter("permission")
    /\ UNCHANGED <<opts, sess, gh, join, reviews, work, requests, signals, prompt, calls>>
    /\ printed' = log(printed, opts.verbose, {"error", "debug"})

\* Variant: `===` in place of `!==` in the comparison of the ids.
PermissionJoinedSameAuthor ==
    /\ pc = "permission_wait" /\ join.fetch = "ok" /\ gh.idres = "ok"
    /\ IF gh.currentIdentity.type = "app"
       THEN /\ requests' = Append(requests, Req("apps.getRepoInstallation", 1))
            /\ join' = [join EXCEPT !.install = "pending"]
            /\ pc' = "permission_app"
            /\ UNCHANGED <<canUse, trace>>
       ELSE /\ canUse' = (join.author = gh.currentIdentity.id)
            /\ trace' = Append(trace, "permission_done")
            /\ pc' = stageAfter("permission")
            /\ UNCHANGED <<requests, join>>
    /\ UNCHANGED <<opts, sess, gh, reviews, work, signals, prompt, printed, calls>>

\* Both results are there
PermissionJoined ==
    /\ pc = "permission_wait" /\ join.fetch = "ok" /\ gh.idres = "ok"
    /\ IF gh.currentIdentity.type = "app"
       THEN /\ requests' = Append(requests, Req("apps.getRepoInstallation", 1))
            /\ join' = [join EXCEPT !.install = "pending"]
            /\ pc' = "permission_app"
            /\ UNCHANGED <<canUse, trace>>
       ELSE /\ canUse' = (join.author # gh.currentIdentity.id)
            /\ trace' = Append(trace, "permission_done")
            /\ pc' = stageAfter("permission")
            /\ UNCHANGED <<requests, join>>
    /\ UNCHANGED <<opts, sess, gh, reviews, work, signals, prompt, calls>>
    /\ printed' = IF gh.currentIdentity.type = "app" THEN printed
                   ELSE log(printed, opts.verbose, {"debug"})

\* #canAppRequestChanges: the response to apps.getRepoInstallation
AppInstallationResponse ==
    /\ pc = "permission_app"
    /\ \E ok \in BOOLEAN, accountType \in {"Organization", "User", "Enterprise"},
          account \in Accounts :
          /\ canUse' = (ok /\ canAppRequestChanges(accountType, account.id, join.author))
          /\ join' = IF ok
                     THEN [join EXCEPT !.install = "ok",
                               !.account = [type |-> accountType, id |-> account.id]]
                     ELSE [join EXCEPT !.install = "failed"]
          /\ printed' = log(printed, opts.verbose,
                            IF ok THEN {"debug"} ELSE {"warning", "debug"})
    /\ trace' = Append(trace, "permission_done")
    /\ pc' = stageAfter("permission")
    /\ UNCHANGED <<opts, sess, gh, reviews, work, requests, signals, prompt, calls>>

(***************************************************************************)
(* runCodexReview                                                          *)
(***************************************************************************)
\* Variant: the dry-run check is missing.
RenderBriefNoDryRun ==
    /\ pc = "brief"
    /\ prompt' = generateCodexPrompt("rules", opts.prNumber)
    /\ trace' = Append(trace, "brief")
    /\ pc' = "mcpCheck"
    /\ printed' = printed
    /\ UNCHANGED <<opts, sess, gh, join, reviews, work, canUse, requests, signals, calls>>

\* const prompt = generateCodexPrompt(rulesPath, prInfo, canUseRequestChanges);
\* if (this.options.dryRun) { print the prompt; return; }
RenderBrief ==
    /\ pc = "brief"
    /\ prompt' = generateCodexPrompt("rules", opts.prNumber)
    /\ trace' = Append(trace, "brief")
    /\ pc' = IF opts.dryRun THEN "exit0" ELSE "mcpCheck"
    /\ printed' = log(printed, opts.verbose, IF opts.dryRun THEN {"info"} ELSE {})
    /\ UNCHANGED <<opts, sess, gh, join, reviews, work, canUse, requests, signals, calls>>

\* if (!await fs.pathExists(githubMCPPath)) { ...; process.exit(1); }
McpCheck ==
    /\ pc = "mcpCheck"
    /\ \E exists \in BOOLEAN :
          /\ pc' = IF exists THEN "spawn" ELSE "exit1"
          /\ printed' = log(printed, opts.verbose,
                            IF exists THEN {"debug", "info"} ELSE {"error", "info"})
    /\ UNCHANGED <<opts, sess, gh, join, reviews, work, canUse, requests, trace, signals, prompt, calls>>

\* The promise executor: spawn(process.execPath, [codexBin, ...]), the
\* closure's state, and the registration of the handlers.  spawn() either
\* starts the child, or fails and reports it on the next tick ('error',
\* then 'close'), or throws.
executor(s, result, codexExists) ==
    LET s0 == [s EXCEPT !.spawnCalls = @ + 1, !.promise = "pending",
                        !.codexMissing = ~codexExists]
    IN  IF result = "throw"
        THEN reject(s0, SpawnThrow)
        ELSE addListener(addListener(
                [s0 EXCEPT !.child = IF result = "ok" THEN "alive" ELSE "spawnfail",
                           !.wasRunning = (result = "ok"),
                           !.wasInterrupted = FALSE],
                "SIGINT"), "SIGTERM")

\* The level of the line a handler logs for the outcome it reports
levelOf(outcome) ==
    CASE outcome = "completed" -> "success"
      [] outcome = "interrupted" -> "warning"
      [] outcome = "failed" -> "error"

\* The levels of the lines the handlers logged between session states s and s1
reported(s, s1) ==
    {levelOf(s1.reports[i]) : i \in (Len(s.reports) + 1)..Len(s1.reports)}

Spawn ==
    /\ pc = "spawn"
    /\ \E result \in {"ok", "asyncError", "throw"}, codexExists \in BOOLEAN :
          /\ sess' = executor(sess, result, codexExists)
          /\ pc' = IF result = "throw" THEN "settled" ELSE "running"
    /\ trace' = Append(trace, "spawn")
    /\ UNCHANGED <<opts, gh, join, reviews, work, canUse, requests, signals, prompt, printed, calls>>

\* The tick after a failed spawn: ChildProcess emits 'error' and, the child
\* having no stdio streams of its own, 'close' with the negative errno.
SpawnErrorTick ==
    /\ pc = "running" /\ sess.child = "spawnfail"
    /\ \E errno \in SpawnErrnos :
          sess' = onClose(onError([sess EXCEPT !.child = "closed"], SpawnError(errno)),
                          {errno}, "null")
    /\ pc' = "settled"
    /\ printed' = log(printed, opts.verbose, reported(sess, sess'))
    /\ UNCHANGED <<opts, gh, join, reviews, work, canUse, requests, trace, signals, prompt, calls>>

\* The child terminates: with an exit code, or killed by a signal.  node
\* given a script that does not exist exits with code 1.
ChildExits ==
    /\ pc = "running" /\ sess.child = "alive"
    /\ \E st \in ExitStatuses :
          /\ sess.codexMissing => (st.code = {1} \/ st.signal # "null")
          /\ sess' = [sess EXCEPT !.child = "exited", !.status = st]
    /\ UNCHANGED <<pc, opts, gh, join, reviews, work, canUse, requests, trace, signals, prompt, printed, calls>>

\* The parent processes the child's termination: 'close' is emitted.
ChildClose ==
    /\ pc = "running" /\ sess.child = "exited"
    /\ sess' = onClose([sess EXCEPT !.child = "closed"], sess.status.code, sess.status.signal)
    /\ pc' = "settled"
    /\ printed' = log(printed, opts.verbose, reported(sess, sess'))
    /\ UNCHANGED <<opts, gh, join, reviews, work, canUse, requests, trace, signals, prompt, calls>>

\* SIGINT or SIGTERM is delivered to the parent: the listener runs if one
\* is registered, otherwise the signal terminates the process.
ParentSignal ==
    /\ ~Exited /\ ~Rejecting /\ pc # "settled" /\ sess.child # "spawnfail"
    /\ signals < MaxSignals
    /\ signals' = signals + 1
    /\ \E sig \in ParentSignals :
          IF sess.listeners[sig] > 0
          THEN sess' = [cleanup(sess) EXCEPT !.handled = @ + 1] /\ pc' = pc
          ELSE sess' = sess /\ pc' = "aborted"
    /\ UNCHANGED <<opts, gh, join, reviews, work, canUse, requests, trace, prompt, printed, calls>>

\* Variant: a rejected session is started once more.
ResumeRetry ==
    /\ pc = "settled"
    /\ pc' = IF sess.promise = "resolved" THEN "exit0"
             ELSE IF sess.spawnCalls < 2 THEN "spawn" ELSE "exit1"
    /\ printed' = IF sess.promise = "resolved" THEN printed
                   ELSE log(printed, opts.verbose, {"error", "debug"})
    /\ UNCHANGED <<opts, sess, gh, join, reviews, work, canUse, requests, trace, signals, prompt, calls>>

\* The await of the promise resumes: return, or log, rethrow, and in run()
\* log and process.exit(1)
Resume ==
    /\ pc = "settled"
    /\ pc' = IF sess.promise = "resolved" THEN "exit0" ELSE "exit1"
    /\ printed' = IF sess.promise = "resolved" THEN printed
                   ELSE log(printed, opts.verbose, {"error", "debug"})
    /\ UNCHANGED <<opts, sess, gh, join, reviews, work, canUse, requests, trace, signals, prompt, calls>>

Next ==
    \/ FindRulesFile
    \/ GetPRInfo
    \/ ReconcileStart
    \/ ListReviewsResponse
    \/ ReconcileRejected
    \/ ReconcileJoined
    \/ DeleteResponse
    \/ UserProbeResponse
    \/ AppProbeResponse
    \/ InstallationByRepoResponse
    \/ InstallationByListResponse
    \/ GetInstallationResponse
    \/ BotUserResponse
    \/ PermissionStart
    \/ PullResponse
    \/ PermissionRejected
    \/ PermissionJoined
    \/ AppInstallationResponse
    \/ RenderBrief
    \/ McpCheck
    \/ Spawn
    \/ SpawnErrorTick
    \/ ChildExits
    \/ ChildClose
    \/ ParentSignal
    \/ Resume

Spec == Init /\ [][Next]_vars

(***************************************************************************)
(* A second invocation of the tool on the same PR with the same token      *)
(***************************************************************************)
\* The pending review the other invocation's agent creates and works on,
\* authored by the account the shared token posts as.
LiveReview(author) == Review(6, "PENDING", author)

LiveAuthors == {Alice, LintBot}

\* The other invocation's agent carries out step 1 of its brief: it
\* creates a pending review.  The platform keeps one pending review per
\* author and PR.  The step is taken before this invocation's
\* pulls.listReviews is answered, so that the list contains the review.
OtherInvocationReview ==
    /\ \/ pc \in {"findRulesFile", "getPRInfo", "reconcile"}
       \/ pc = "reconcile_wait" /\ join.fetch = "pending" /\ ~Rejecting
    /\ \E author \in LiveAuthors :
          /\ \A r \in reviews : r.id # 6 /\ ~(r.state = "PENDING" /\ r.user = author)
          /\ reviews' = reviews \cup {LiveReview(author)}
    /\ UNCHANGED <<pc, opts, sess, gh, join, work, canUse, requests, trace, signals,
                   prompt, printed, calls>>

\* Runs given a PR number, not verbose and not dry
InitConcurrent ==
    /\ Init
    /\ opts = [dryRun |-> FALSE, prNumber |-> TRUE, verbose |-> FALSE]

NextConcurrent == Next \/ OtherInvocationReview

SpecConcurrent == InitConcurrent /\ [][NextConcurrent]_vars

(***************************************************************************)
(* The session alone: a run that has come to the spawn, and a child that   *)
(* does terminate                                                          *)
(***************************************************************************)
\* The state in which a run without a PR, not verbose, with the helper of
\* part_002 comes to the spawn: reconciliation and permission evaluation
\* have made no request.
InitSession ==
    /\ pc = "spawn"
    /\ opts = [dryRun |-> FALSE, prNumber |-> FALSE, verbose |-> FALSE]
    /\ sess = IdleSession
    /\ gh = [NewHelper EXCEPT !.file = "part_002"]
    /\ join = NoJoin
    /\ reviews \in SUBSET PendingReviews
    /\ work = NoWork
    /\ canUse = FALSE
    /\ requests = << >>
    /\ trace = <<"reconcile_start", "reconcile_done",
                 "permission_start", "permission_done", "brief">>
    /\ signals = 0
    /\ prompt = generateCodexPrompt("rules", FALSE)
    /\ printed = {}
    /\ calls = NoCalls

NextSession ==
    \/ Spawn
    \/ SpawnErrorTick
    \/ ChildExits
    \/ ChildClose
    \/ ParentSignal
    \/ Resume

\* The child terminates at some time, and the event loop delivers what it
\* has to deliver.
SpecSession ==
    /\ InitSession /\ [][NextSession]_vars
    /\ WF_vars(SpawnErrorTick) /\ WF_vars(ChildExits) /\ WF_vars(ChildClose)

(***************************************************************************)
(* GithubHelper used by a client that does not await one call before the   *)
(* next: each call runs its own #getCurrentIdentity                        *)
(***************************************************************************)
HelperMethods == {"removeAllPendingReviewsFromTool", "canUseRequestChanges"}

\* A call's #getCurrentIdentity takes the answer to the request it waits
\* for: the probe yields its identity, or the next request of the strategy
\* is issued, or the next strategy is tried, or none is left.
answered(g, reqs, ok) ==
    CASE g.idpc = "user" ->
            IF ok THEN <<resolved(g, userIdentity(Alice, TRUE)), reqs>>
                  ELSE fallThrough(g, reqs, "user")
      [] g.idpc = "app" ->
            IF ok THEN <<resolved(g, appIdentity(LintApp)), reqs>>
                  ELSE fallThrough(g, reqs, "app")
      [] g.idpc = "inst1" ->
            IF ok THEN <<[g EXCEPT !.idpc = "getInst",
                                   !.methods = Append(@, <<"repo", "id">>)],
                         Append(reqs, Req("apps.getInstallation", 0))>>
                  ELSE <<[g EXCEPT !.idpc = "inst2",
                                   !.methods = Append(@, <<"repo", "error">>)],
                         Append(reqs, Req("apps.listReposAccessibleToInstallation", 0))>>
      [] g.idpc = "inst2" ->
            IF ok THEN <<[g EXCEPT !.idpc = "getInst",
                                   !.methods = @ \o methodsAfterList("repositories", "none")],
                         Append(reqs, Req("apps.getInstallation", 0))>>
                  ELSE LET res == fallThrough(g, reqs, "bot")
                       IN  <<[res[1] EXCEPT !.methods = @ \o methodsAfterList("error", "none")],
                             res[2]>>
      [] g.idpc = "getInst" ->
            IF ok THEN <<[g EXCEPT !.idpc = "botUser"],
                         Append(reqs, Req("users.getByUsername", 0))>>
                  ELSE fallThrough(g, reqs, "bot")
      [] g.idpc = "botUser" ->
            IF ok THEN <<resolved([g EXCEPT !.botUser = "found"],
                                  botIdentity(LintBot, LintApp)), reqs>>
                  ELSE <<resolved([g EXCEPT !.botUser = "missing"],
                                  fallbackBotIdentity(LintApp)), reqs>>

\* Variant: canUseRequestChanges does not look at its arguments.
HelperCallNoGuard ==
    /\ pc = "client"
    /\ \E c \in 1..MaxCalls, op \in HelperMethods, args \in CallArgs :
          /\ calls[c].op = "none"
          /\ LET first == Req(IF op = "canUseRequestChanges"
                              THEN "pulls.get" ELSE "pulls.listReviews", 0)
                 res == getCurrentIdentity(gh, Append(requests, first))
             IN  /\ calls' = [calls EXCEPT ![c] =
                        [op |-> op, args |-> args, returned |-> "none", g |-> res[1]]]
                 /\ requests' = res[2]
    /\ UNCHANGED <<pc, opts, sess, gh, join, reviews, work, canUse, trace, signals,
                   prompt, printed>>

\* The client calls a method.  canUseRequestChanges returns false if an
\* argument is missing; in part_002 removeAllPendingReviewsFromTool returns
\* at once.  Otherwise the call issues its platform request and starts
\* #getCurrentIdentity, which returns the stored identity if there is one
\* and otherwise begins to probe.
HelperCall ==
    /\ pc = "client"
    /\ \E c \in 1..MaxCalls, op \in HelperMethods, args \in CallArgs :
          /\ calls[c].op = "none"
          /\ IF op = "canUseRequestChanges" /\ ~(args.owner /\ args.name /\ args.pr)
             THEN /\ calls' = [calls EXCEPT ![c] =
                        [op |-> op, args |-> args, returned |-> "false", g |-> gh]]
                  /\ requests' = requests
             ELSE IF op = "removeAllPendingReviewsFromTool" /\ gh.file = "part_002"
             THEN /\ calls' = [calls EXCEPT ![c] =
                        [op |-> op, args |-> args, returned |-> "undefined", g |-> gh]]
                  /\ requests' = requests
             ELSE LET first == Req(IF op = "canUseRequestChanges"
                                   THEN "pulls.get" ELSE "pulls.listReviews", 0)
                      res == getCurrentIdentity(gh, Append(requests, first))
                  IN  /\ calls' = [calls EXCEPT ![c] =
                             [op |-> op, args |-> args, returned |-> "none", g |-> res[1]]]
                      /\ requests' = res[2]
    /\ UNCHANGED <<pc, opts, sess, gh, join, reviews, work, canUse, trace, signals,
                   prompt, printed>>

\* A request of a call's identity resolution is answered; an identity that
\* was found is stored: this.#currentIdentity = identity.
HelperProbeResponse ==
    /\ pc = "client"
    /\ \E c \in 1..MaxCalls, ok \in BOOLEAN :
          /\ calls[c].g.idres = "pending"
          /\ LET res == answered(calls[c].g, requests, ok)
             IN  /\ calls' = [calls EXCEPT ![c].g = res[1]]
                 /\ requests' = res[2]
                 /\ gh' = IF res[1].idres = "ok"
                          THEN [gh EXCEPT !.currentIdentity = res[1].currentIdentity]
                          ELSE gh
    /\ UNCHANGED <<pc, opts, sess, join, reviews, work, canUse, trace, signals,
                   prompt, printed>>

InitHelper ==
    /\ pc = "client"
    /\ opts = [dryRun |-> FALSE, prNumber |-> TRUE, verbose |-> FALSE]
    /\ sess = IdleSession
    /\ gh \in {[NewHelper EXCEPT !.file = f, !.env = e] :
                    f \in HelperFiles, e \in Environments}
    /\ gh.file = "part_003" => gh.env = "unset"
    /\ join = NoJoin
    /\ reviews = {}
    /\ work = NoWork
    /\ canUse = FALSE
    /\ requests = << >>
    /\ trace = << >>
    /\ signals = 0
    /\ prompt = NoPrompt
    /\ printed = {}
    /\ calls = NoCalls

NextHelper == HelperCall \/ HelperProbeResponse

SpecHelper == InitHelper /\ [][NextHelper]_vars

\* A client that makes a single call
InitOneCall ==
    /\ pc = "client"
    /\ opts = [dryRun |-> FALSE, prNumber |-> TRUE, verbose |-> FALSE]
    /\ sess = IdleSession
    /\ gh \in {[NewHelper EXCEPT !.file = f, !.env = e] :
                    f \in HelperFiles, e \in Environments}
    /\ gh.file = "part_003" => gh.env = "unset"
    /\ join = NoJoin
    /\ reviews = {}
    /\ work = NoWork
    /\ canUse = FALSE
    /\ requests = << >>
    /\ trace = << >>
    /\ signals = 0
    /\ prompt = NoPrompt
    /\ printed = {}
    /\ calls = [c \in 1..MaxCalls |-> IF c = 1 THEN IdleCall ELSE SpentCall]

SpecOneCall == InitOneCall /\ [][NextHelper]_vars


(***************************************************************************)
(* Properties of the review session (runCodexReview)                       *)
(***************************************************************************)
\* The promise of runCodexReview's executor has been settled.
SessionSettled == sess.promise \in {"resolved", "rejected"}

\* The step is the delivery of a signal to the parent.
SignalStep == signals' = signals + 1

\* C1: a session in which the controller has handled SIGINT or SIGTERM
\* after the spawn and before 'close' was processed ends interrupted: the
\* promise rejects with the interruption error and is never resolved,
\* whatever exit code the child reports, 0 included.
C1_InterruptedTakesPrecedence ==
    (sess.handled > 0 /\ sess.child = "closed") =>
        /\ sess.promise = "rejected"
        /\ sess.error = InterruptedError
        /\ sess.reports = <<"interrupted">>

C1_Witness ==
    /\ sess.handled > 0 /\ sess.child = "closed"
    /\ sess.status.code = {0}
    /\ sess.error = InterruptedError

\* C2: the promise of a session is resolved (completed) only if the child
\* closed with exit code 0 and no cancellation was handled; in every other
\* case in which the session has ended the promise is rejected.
C2_CompletedOnlyOnCleanExit ==
    SessionSettled =>
        (sess.promise = "resolved" <=>
            /\ sess.child = "closed"
            /\ sess.status.code = {0}
            /\ sess.handled = 0)

C2_Witness ==
    /\ sess.promise = "resolved"
    /\ sess.reports = <<"completed">>

\* C3: when the child closes with a nonzero exit code and no cancellation
\* was handled, the session has failed, the error carries that exit code,
\* and spawn() has been called once only (now and at every later step).
C3_NonzeroExitFailsOnce ==
    /\ sess.spawnCalls <= 1
    /\ (/\ sess.wasRunning /\ sess.child = "closed"
        /\ sess.status.signal = "null" /\ sess.status.code # {0}
        /\ sess.handled = 0) =>
            /\ sess.promise = "rejected"
            /\ sess.error = [kind |-> "exit", code |-> sess.status.code]
            /\ sess.reports = <<"failed">>

C3_Witness ==
    /\ pc = "exit1"
    /\ sess.wasRunning /\ sess.handled = 0
    /\ sess.status.code = {2}
    /\ sess.error = [kind |-> "exit", code |-> {2}]

\* C4 (as claimed): when the codex entry script is missing, the session
\* ends with the spawn error and no child has ever been running.
C4_MissingCodexIsSpawnError ==
    (sess.codexMissing /\ SessionSettled) =>
        (sess.error.kind = "spawn" /\ ~sess.wasRunning)

\* C5 (as claimed): a session whose child has reported its end has logged
\* exactly one outcome, and no session logs more than one.
C5_ExactlyOneOutcomeReported ==
    /\ Len(sess.reports) <= 1
    /\ sess.child = "closed" => Len(sess.reports) = 1

\* C6: a signal delivered to the parent while the child is alive and has
\* not been sent SIGTERM by the controller makes the controller send
\* SIGTERM to the child and mark the session interrupted.
C6_SignalIsForwarded ==
    [][(SignalStep /\ sess.child = "alive" /\ sess.killsSent = 0) =>
          /\ sess'.killsSent = 1
          /\ sess'.killed
          /\ sess'.wasInterrupted
          /\ pc' = pc]_vars

C6_Witness ==
    /\ sess.child = "alive" /\ sess.handled = 1
    /\ sess.killsSent = 1 /\ sess.wasInterrupted

\* C7: the cleanup listener is registered for SIGINT and for SIGTERM
\* exactly while a child object exists that has not reported its end
\* ('error' or 'close'); each registration is removed once.
C7_ListenersWhileRunning ==
    /\ \A sig \in ParentSignals :
          sess.listeners[sig] =
              IF sess.child \in {"spawnfail", "alive", "exited"} THEN 1 ELSE 0
    /\ sess.removals <= 2
    /\ sess.child = "closed" => sess.removals = 2

C7_Witness ==
    /\ sess.child = "closed"
    /\ Len(sess.reports) = 2
    /\ sess.removals = 2
    /\ \A sig \in ParentSignals : sess.listeners[sig] = 0

\* C8: the controller sends the child at most one SIGTERM; a signal handled
\* after the first one sends nothing and reports nothing, and a session
\* that has handled signals reports at most one outcome.
C8_SecondSignalIsInert ==
    /\ [](sess.killsSent <= 1)
    /\ [](sess.handled > 0 => Len(sess.reports) <= 1)
    /\ [][(SignalStep /\ sess.handled >= 1) =>
             /\ sess'.killsSent = sess.killsSent
             /\ sess'.reports = sess.reports]_vars

C8_Witness ==
    /\ sess.handled = 2 /\ sess.killsSent = 1
    /\ sess.reports = <<"interrupted">>


(***************************************************************************)
(* Properties of run() and of identity resolution                          *)
(***************************************************************************)
\* The place of a stage event in the trace, 0 when it has not happened.
Pos(e) ==
    IF \E i \in DOMAIN trace : trace[i] = e
    THEN CHOOSE i \in DOMAIN trace : trace[i] = e
    ELSE 0

\* If b has happened, a has happened before it.
Before(a, b) == Pos(b) > 0 => (Pos(a) > 0 /\ Pos(a) < Pos(b))

\* The requests of permission evaluation, and those of reconciliation.
IsPermissionRequest(r) ==
    r.op = "pulls.get" \/ r = Req("apps.getRepoInstallation", 1)

IsReconcileRequest(r) ==
    r.op \in {"pulls.listReviews", "pulls.deletePendingReview"}

\* C9: in every run the stages are strictly ordered: reconciliation has
\* completed (every deletion has been answered) before permission
\* evaluation issues its first request, permission evaluation has returned
\* before the brief is generated, and the brief is rendered before the
\* agent is spawned.
C9_StagesInOrder ==
    /\ Before("reconcile_start", "reconcile_done")
    /\ Before("reconcile_done", "permission_start")
    /\ Before("permission_start", "permission_done")
    /\ Before("permission_done", "brief")
    /\ Before("brief", "spawn")
    /\ \A i \in DOMAIN requests :
          IsPermissionRequest(requests[i]) =>
              /\ Pos("reconcile_done") > 0
              /\ work.waiting = {}
              /\ \A j \in DOMAIN requests :
                    IsReconcileRequest(requests[j]) => j < i
    /\ Pos("brief") > 0 => pc \notin {"permission", "permission_wait", "permission_app"}
    /\ sess.spawnCalls > 0 => Pos("brief") > 0

C9_Witness ==
    /\ sess.wasRunning
    /\ work.deleted # {} /\ work.failed # {}
    /\ \E i \in DOMAIN requests : requests[i] = Req("apps.getRepoInstallation", 1)

Strategies == <<"user", "app", "bot">>

IsPrefix(p, q) ==
    Len(p) <= Len(q) /\ \A i \in DOMAIN p : p[i] = q[i]

\* The strategy an identity comes from, by its kind.
strategyOf(identity) ==
    IF identity.type \in {"app", "bot"} THEN identity.type ELSE "user"

\* The strategy that issues a request, "none" for the other requests.
strategyOfRequest(r) ==
    CASE r.op = "users.getAuthenticated" -> "user"
      [] r.op = "apps.getAuthenticated" -> "app"
      [] r = Req("apps.getRepoInstallation", 0) -> "bot"
      [] r.op \in {"apps.listReposAccessibleToInstallation",
                   "apps.getInstallation", "users.getByUsername"} -> "bot"
      [] OTHER -> "none"

\* C10: the strategies are tried in the order user, application,
\* installation/bot; the identity is the result of the last strategy tried,
\* which is the first that succeeded, and no request of a later strategy
\* is ever issued.
C10_FirstSuccessWins ==
    /\ IsPrefix(gh.probes, Strategies)
    /\ \A i \in DOMAIN requests :
          strategyOfRequest(requests[i]) # "none" =>
              \E k \in DOMAIN gh.probes : gh.probes[k] = strategyOfRequest(requests[i])
    /\ gh.currentIdentity # NoIdentity =>
          /\ gh.probes # << >>
          /\ strategyOf(gh.currentIdentity) = gh.probes[Len(gh.probes)]
          /\ gh.idpc = "idle"

C10_Witness ==
    /\ gh.currentIdentity.type = "app"
    /\ gh.probes = <<"user", "app">>
    /\ pc = "exit0"

\* The requests issued by the identity probes, in order.
ProbeRequests == SelectSeq(requests, LAMBDA r : strategyOfRequest(r) # "none")

\* C11: once an identity has been stored, every later step, a later call
\* of #getCurrentIdentity included, leaves the stored identity as it is,
\* answers the call at once, tries no strategy and issues no probe request.
C11_ResolvedIdentityIsCached ==
    [][gh.currentIdentity # NoIdentity =>
          /\ gh'.currentIdentity = gh.currentIdentity
          /\ gh'.idres = "ok"
          /\ gh'.probes = gh.probes
          /\ ProbeRequests' = ProbeRequests]_vars

\* permission evaluation has called the resolver after reconciliation did
C11_Witness ==
    /\ pc = "permission_wait" /\ join.op = "pulls.get"
    /\ \E i \in DOMAIN requests : requests[i].op = "pulls.listReviews"
    /\ gh.currentIdentity # NoIdentity /\ gh.idres = "ok"
    /\ Len(ProbeRequests) = Len(gh.probes)

\* C12: the resolver rejects only after the user, the application and the
\* bot strategy have all been tried and none has stored an identity; a
\* failed request of a probe ends at most that probe.
C12_FailsOnlyWhenExhausted ==
    /\ gh.idres = "failed" =>
          /\ gh.probes = Strategies
          /\ gh.currentIdentity = NoIdentity
          /\ gh.idpc = "idle"
    /\ gh.idres = "pending" => gh.probes # << >> /\ gh.idpc # "idle"

\* every strategy has failed, the bot probe at apps.getInstallation
C12_Witness ==
    /\ gh.idres = "failed"
    /\ gh.probes = Strategies
    /\ \E i \in DOMAIN requests : requests[i].op = "apps.getInstallation"

\* C13 (as claimed): once every identity strategy has failed, no deletion
\* is requested, the brief is not rendered, the agent is not spawned and
\* the run does not end with exit code 0.
C13_UnresolvedIdentityAborts ==
    gh.idres = "failed" =>
        /\ \A i \in DOMAIN requests : requests[i].op # "pulls.deletePendingReview"
        /\ Pos("brief") = 0
        /\ sess.spawnCalls = 0
        /\ pc # "exit0"


(***************************************************************************)
(* Properties of permission evaluation                                     *)
(***************************************************************************)
\* canUseRequestChanges has returned from the path that awaits pulls.get.
PermissionReturned == Pos("permission_done") > 0 /\ join.op = "pulls.get"

\* C14: a run is never ended from inside permission evaluation, and when
\* the pull-request fetch, the identity resolution or the installation
\* lookup has failed, canUseRequestChanges has returned false.
C14_PermissionNeverThrows ==
    /\ (Pos("permission_start") > 0 /\ Pos("permission_done") = 0) =>
          pc \in {"permission_wait", "permission_app", "aborted"}
    /\ (PermissionReturned /\ (\/ join.fetch = "failed"
                                \/ gh.idres = "failed"
                                \/ join.install = "failed")) => ~canUse
    /\ (PermissionReturned /\ join.fetch = "pending") => gh.idres = "failed"

\* the pull-request fetch failed and the run went on to start the agent
C14_Witness ==
    /\ PermissionReturned /\ join.fetch = "failed"
    /\ ~canUse /\ sess.wasRunning

\* canUseRequestChanges has returned the result of #canAppRequestChanges
\* computed from a successful installation lookup.
AppDecided ==
    /\ PermissionReturned /\ gh.currentIdentity.type = "app"
    /\ join.fetch = "ok" /\ join.install = "ok"

\* C15: for an application identity the result is true for every PR author
\* when the installation account is an Organization, and, when it is a
\* User, false if the account is the PR author and true otherwise.
C15_AppPermission ==
    AppDecided =>
        /\ join.account.type = "Organization" => canUse
        /\ join.account.type = "User" => (canUse <=> join.author # join.account.id)

\* installed on the account of the PR's author
C15_Witness ==
    /\ AppDecided /\ join.account.type = "User"
    /\ join.author = join.account.id /\ ~canUse

\* canUseRequestChanges has returned the comparison of the ids.
IdsCompared ==
    /\ PermissionReturned /\ join.fetch = "ok" /\ gh.idres = "ok"
    /\ gh.currentIdentity.type # "app"

\* C16: for an identity that is not an application (user or bot) the
\* result is true exactly when the id of the PR's author differs from the
\* id of the identity, so it is false for a PR the identity authored.
C16_UserOrBotPermission ==
    IdsCompared => (canUse <=> join.author # gh.currentIdentity.id)

\* the PR was authored by the resolved user
C16_Witness ==
    /\ IdsCompared /\ gh.currentIdentity.login = Alice.login
    /\ join.author = Alice.id /\ ~canUse


(***************************************************************************)
(* Properties of the reconciliation of pending reviews                     *)
(***************************************************************************)
\* The reviews of the pull request when reconciliation began: those still
\* there and those it has deleted.
ReviewsAtStart ==
    reviews \cup {r \in ReviewUniverse : r.id \in work.deleted}

\* The ids of the reviews a deletion has been requested for.
DeleteRequested ==
    {requests[i].arg : i \in {j \in DOMAIN requests :
                                 requests[j].op = "pulls.deletePendingReview"}}

\* C17 (as claimed): when reconciliation has returned and the identity is
\* a bot, a deletion has been requested for exactly the pending reviews
\* whose author's login is the identity's login, or whose author is
\* flagged Bot and has a login containing the identity's name.
C17_BotReconciliation ==
    (Pos("reconcile_done") > 0 /\ gh.currentIdentity.type = "bot") =>
        DeleteRequested =
            {r.id : r \in {q \in ReviewsAtStart :
                /\ q.state = "PENDING"
                /\ \/ q.user.login = gh.currentIdentity.login
                   \/ (q.user.type = "Bot"
                        /\ includes(q.user.login, gh.currentIdentity.name))}}

\* The ids of the reviews reconciliation matched.
MatchedIds == {work.matched[i].id : i \in DOMAIN work.matched}

\* C18: a deletion has been requested for every matched review whatever
\* the other deletions answered; a review is gone exactly if its own
\* deletion succeeded; and when all have answered, failures among them or
\* not, removeAllPendingReviewsFromTool has returned and the run is not
\* ended by it.
C18_DeletionFailuresAreIsolated ==
    /\ work.matched # << >> =>
          /\ DeleteRequested = MatchedIds
          /\ work.deleted \cup work.failed \cup work.waiting = MatchedIds
          /\ \A i \in DOMAIN work.matched :
                work.matched[i] \in reviews <=> work.matched[i].id \notin work.deleted
    /\ (work.matched # << >> /\ work.waiting = {}) =>
          /\ Pos("reconcile_done") > 0
          /\ pc = "exit1" => Pos("permission_done") > 0
    /\ pc = "deleting" => work.waiting # {}

\* of two matched reviews one deletion failed, the other succeeded, and
\* the run is at permission evaluation
C18_Witness ==
    /\ work.failed # {} /\ work.deleted # {} /\ work.waiting = {}
    /\ pc = "permission"

\* Reconciliation has begun and has not returned.
InReconciliation == Pos("reconcile_start") > 0 /\ Pos("reconcile_done") = 0

ListFetchFailed == join.op = "pulls.listReviews" /\ join.fetch = "failed"

\* C20: once the review-list fetch has failed, reconciliation does not
\* return and permission evaluation does not start, no deletion is
\* requested, the agent is not spawned, and the one step the run takes is
\* to end with exit code 1.
C20_FetchFailureIsFatal ==
    /\ [](ListFetchFailed =>
            /\ pc \in {"reconcile_wait", "exit1"}
            /\ Pos("reconcile_done") = 0 /\ Pos("permission_start") = 0
            /\ DeleteRequested = {}
            /\ sess.spawnCalls = 0)
    /\ [][(ListFetchFailed /\ pc = "reconcile_wait") => pc' = "exit1"]_vars

\* the identity was resolved, the fetch failed, the run has exited 1
C20_Witness ==
    /\ ListFetchFailed /\ pc = "exit1"
    /\ gh.idres = "ok" /\ reviews # {}

\* The brief has been rendered.
BriefRendered == Pos("brief") > 0

\* C21: the brief depends on the permission decision: the one rendered
\* when the tool may not request changes restricts the agent to the
\* comment-only verdict.
C21_BriefFollowsPermission ==
    BriefRendered =>
        prompt.events = IF canUse THEN {"REQUEST_CHANGES", "COMMENT"} ELSE {"COMMENT"}

\* C22: spawn() is called at most once in a run, and only when no agent
\* process of this run exists: a run never has two agent processes, one
\* after the other or at the same time.
C22_AtMostOneAgent ==
    /\ [](sess.spawnCalls <= 1 /\ (sess.child # "none" => sess.spawnCalls = 1))
    /\ [][sess'.spawnCalls # sess.spawnCalls =>
            /\ sess.spawnCalls = 0 /\ sess.child = "none"
            /\ sess'.spawnCalls = 1]_vars

\* the agent exited with a nonzero code, the session was rejected and the
\* run has exited with one call of spawn()
C22_Witness ==
    /\ pc = "exit1" /\ sess.promise = "rejected" /\ sess.wasRunning
    /\ sess.child = "closed" /\ sess.spawnCalls = 1

\* C23: a run that has ended with exit code 1 has printed a line at error
\* level, with or without --verbose.
C23_FailureLogsAnError ==
    pc = "exit1" => "error" \in printed

\* C24: in a dry run no agent is spawned and no signal listener is
\* registered (the session is never started), and once the brief is
\* rendered runCodexReview has returned and the run has ended with exit
\* code 0.
C24_DryRunSpawnsNothing ==
    opts.dryRun =>
        /\ sess = IdleSession
        /\ Pos("spawn") = 0
        /\ pc \notin {"mcpCheck", "spawn", "running", "settled"}
        /\ BriefRendered => (pc = "exit0" /\ prompt # NoPrompt)

\* a dry run has rendered the brief and ended
C24_Witness ==
    opts.dryRun /\ BriefRendered /\ pc = "exit0"

\* The agent ran and its session was cancelled: the cleanup listener took
\* a signal, or the agent was ended by SIGINT or SIGTERM.
SessionInterrupted ==
    /\ sess.wasRunning /\ sess.child = "closed"
    /\ sess.handled > 0 \/ sess.status.signal \in {"SIGINT", "SIGTERM"}

\* C25: the error a rejected session carries tells an interruption from a
\* failure: an interrupted session is rejected with the interruption
\* error and reported as interrupted; a session that failed (nonzero
\* exit, or the agent could not be started) is rejected with an exit or
\* spawn error and is never reported as interrupted.
C25_InterruptedIsDistinct ==
    sess.promise = "rejected" =>
        IF SessionInterrupted
        THEN /\ sess.error.kind = "interrupted"
             /\ sess.reports = <<"interrupted">>
        ELSE /\ sess.error.kind \in {"exit", "spawn"}
             /\ \A i \in DOMAIN sess.reports : sess.reports[i] = "failed"

\* the operator interrupted the run, the agent then ended with a nonzero
\* exit code, and the run has exited
C25_Witness ==
    /\ pc = "exit1" /\ SessionInterrupted
    /\ sess.status.signal = "null" /\ sess.status.code # {0}
    /\ sess.error.kind = "interrupted"

\* C26: every delete request reconciliation issues names a review of the
\* fetched list whose state is PENDING, whatever the kind of the resolved
\* identity.
C26_OnlyPendingIsDeleted ==
    \A id \in DeleteRequested :
        \E r \in ReviewsAtStart : r.id = id /\ r.state = "PENDING"

\* the identity is the authenticated user, whose pending review was
\* requested for deletion while the review the same user had submitted
\* was not
C26_Witness ==
    /\ gh.currentIdentity.type \in {"User", "user"}
    /\ Review(5, "APPROVED", Alice) \in reviews
    /\ DeleteRequested = {2}
    /\ Pos("reconcile_done") > 0

\* C27: with the identity of the authenticated-user probe, when
\* reconciliation has returned the delete requests are those for exactly
\* the pending reviews of the fetched list whose author's id is the
\* identity's id.
C27_UserReconciliation ==
    (Pos("reconcile_done") > 0 /\ gh.probes = <<"user">> /\ gh.idres = "ok") =>
        DeleteRequested =
            {r.id : r \in {q \in ReviewsAtStart :
                /\ q.state = "PENDING"
                /\ q.user.id = gh.currentIdentity.id}}

\* C28: with an application identity, when reconciliation has returned
\* the delete requests are those for exactly the pending reviews of the
\* fetched list whose author has the identity's id, or the identity's
\* login, or is a Bot account.
C28_AppReconciliation ==
    (Pos("reconcile_done") > 0 /\ gh.currentIdentity.type = "app") =>
        DeleteRequested =
            {r.id : r \in {q \in ReviewsAtStart :
                /\ q.state = "PENDING"
                /\ \/ q.user.id = gh.currentIdentity.id
                   \/ q.user.login = gh.currentIdentity.login
                   \/ q.user.type = "Bot"}}

\* C29: once reconciliation has returned and the agent has been spawned,
\* at most one pending review attributable to the resolved identity is
\* on the PR.
C29_OnePendingReviewAtStart ==
    (Pos("reconcile_done") > 0 /\ Pos("spawn") > 0 /\ gh.idres = "ok") =>
        Cardinality({r \in reviews :
            /\ r.state = "PENDING"
            /\ IF gh.currentIdentity.type = "app"
               THEN \/ r.user.id = gh.currentIdentity.id
                    \/ r.user.login = gh.currentIdentity.login
                    \/ r.user.type = "Bot"
               ELSE IF gh.currentIdentity.type = "bot"
               THEN \/ r.user.login = gh.currentIdentity.login
                    \/ (r.user.type = "Bot"
                          /\ includes(r.user.login, gh.currentIdentity.name))
               ELSE r.user.id = gh.currentIdentity.id}) <= 1

\* The pending review of the other, still running invocation is in the
\* list this invocation fetched (it is on the PR, or has been deleted).
LiveReviewListed(author) ==
    LiveReview(author) \in reviews \/ 6 \in work.deleted \cup work.failed

\* C30 (as claimed): no delete request names the pending review of the
\* other, still running invocation.
C30_LiveReviewIsSpared ==
    6 \notin DeleteRequested

\* C30 (amended): reconciliation does not tell reviews apart by the
\* invocation that created them: when it has requested deletions and the
\* other invocation's pending review is in the fetched list and matches
\* the identity rule, a delete request names that review too.
C30_NoDistinctionByInvocation ==
    \A author \in LiveAuthors :
        (/\ DeleteRequested # {}
         /\ LiveReviewListed(author)
         /\ IF gh.currentIdentity.type = "app"
            THEN \/ author.id = gh.currentIdentity.id
                 \/ author.login = gh.currentIdentity.login
                 \/ author.type = "Bot"
            ELSE IF gh.currentIdentity.type = "bot"
            THEN \/ author.login = gh.currentIdentity.login
                 \/ (author.type = "Bot"
                       /\ includes(author.login, gh.currentIdentity.name))
            ELSE author.id = gh.currentIdentity.id)
        => 6 \in DeleteRequested

\* an app identity: the pending review of another tool's bot and the one
\* of the other invocation were both requested, and the latter is gone
C30_Witness ==
    /\ gh.currentIdentity.type = "app"
    /\ DeleteRequested = {3, 6}
    /\ 6 \in work.deleted /\ LiveReview(LintBot) \notin reviews
    /\ Pos("reconcile_done") > 0

\* The results of the methods #getInstallationId has tried so far.
MethodResult(i) == gh.methods[i][2]

\* #getInstallationId has returned.
InstallationIdReturned == gh.methods # << >> /\ gh.idpc \notin {"inst1", "inst2"}

\* C31: the methods are tried in the order repo lookup, list lookup,
\* credential parse; a method is tried only after all earlier ones
\* yielded no id; and when #getInstallationId has returned and the first
\* two yielded no id (also by failing), the credential parse was tried.
C31_InstallationIdMethods ==
    /\ \A i \in DOMAIN gh.methods :
          /\ gh.methods[i][1] = <<"repo", "list", "header">>[i]
          /\ \A j \in 1..(i - 1) : MethodResult(j) # "id"
    /\ (/\ InstallationIdReturned
        /\ Len(gh.methods) >= 2
        /\ MethodResult(1) # "id" /\ MethodResult(2) # "id") =>
            (Len(gh.methods) = 3 /\ gh.methods[3][1] = "header")

\* C32: once the lookup of the account {slug}[bot] has been answered, the
\* identity is resolved with type bot: with the account's id and login
\* if the account was found, and otherwise with the application's id,
\* the login {slug}[bot] and the application's name.
C32_BotStrategySucceeds ==
    gh.botUser # "none" =>
        /\ gh.idres = "ok"
        /\ gh.currentIdentity.type = "bot"
        /\ gh.botUser = "found" =>
              /\ gh.currentIdentity.id = LintBot.id
              /\ gh.currentIdentity.login = LintBot.login
        /\ gh.botUser = "missing" =>
              /\ gh.currentIdentity.id = LintApp.id
              /\ gh.currentIdentity.login = LintApp.slug \o <<"[bot]">>
              /\ gh.currentIdentity.name = LintApp.name

\* the bot account was not found and reconciliation has gone on with the
\* synthetic identity
C32_Witness ==
    /\ gh.botUser = "missing" /\ gh.currentIdentity.id = LintApp.id
    /\ Pos("reconcile_done") > 0

\* C33: reconciliation issues the review-list request and the first
\* identity probe in one step, before either is answered; a delete
\* request is issued only in a step taken when the list has been fetched
\* and the identity resolved; and while either is unanswered or has
\* failed, no delete request exists.
C33_DeletesAfterBothSucceeded ==
    /\ [][(pc = "reconcile" /\ requests' # requests) =>
            /\ Len(requests') = Len(requests) + 2
            /\ requests'[Len(requests) + 1].op = "pulls.listReviews"
            /\ strategyOfRequest(requests'[Len(requests) + 2]) = firstStrategy]_vars
    /\ [][DeleteRequested' # DeleteRequested =>
            /\ join.op = "pulls.listReviews"
            /\ join.fetch = "ok" /\ gh.idres = "ok"]_vars
    /\ []((InReconciliation /\ (join.fetch # "ok" \/ gh.idres # "ok")) =>
               DeleteRequested = {})

\* the list was fetched, with pending reviews in it, no strategy resolved
\* the identity, and the run has ended without a delete request
C33_Witness ==
    /\ join.op = "pulls.listReviews" /\ join.fetch = "ok" /\ gh.idres = "failed"
    /\ pc = "exit1" /\ DeleteRequested = {}
    /\ \E r \in reviews : r.state = "PENDING"

\* C34: a resolved identity has type user, app or bot, and the identity of
\* the authenticated-user probe has type user.
C34_IdentityKinds ==
    gh.idres = "ok" =>
        /\ gh.currentIdentity.type \in {"user", "app", "bot"}
        /\ gh.probes = <<"user">> => gh.currentIdentity.type = "user"

\* C35: in a dry run no delete-review request is issued and no review is
\* removed from the PR.
C35_DryRunLeavesReviews ==
    opts.dryRun => (DeleteRequested = {} /\ work.deleted = {})

\* The calls whose #getCurrentIdentity found an identity by probing and
\* stored it.
CallsThatStored ==
    {c \in 1..MaxCalls : calls[c].g.idres = "ok" /\ calls[c].g.probes # << >>}

\* The number of times the first probe's request has been issued.
ProbeRuns ==
    Cardinality({i \in DOMAIN requests : requests[i].op = "users.getAuthenticated"})

\* C36: whatever the interleaving of the calls of a helper's methods, the
\* identity is stored at most once and the probes are run at most once.
C36_IdentityResolvedOnce ==
    Cardinality(CallsThatStored) <= 1 /\ ProbeRuns <= 1

\* C37: while the session is running (the agent spawned, or the spawn
\* failing, and neither 'close' nor 'error' handled yet) the promise is
\* pending and no outcome is reported, however many signals the listener
\* has taken; and when the child terminates, a running session is
\* settled at some time.
C37_SessionEndsWithTheChild ==
    /\ [](pc = "running" =>
            /\ sess.promise = "pending" /\ sess.reports = << >>
            /\ sess.child \in {"alive", "exited", "spawnfail"})
    /\ (pc = "running") ~> SessionSettled

\* the listener has taken every signal and forwarded one to the child;
\* the child is still alive and the session still pending
C37_Witness ==
    /\ pc = "running" /\ sess.child = "alive"
    /\ sess.handled >= 2 /\ sess.killsSent = 1
    /\ sess.promise = "pending"

\* C38: when the agent was ended by SIGTERM or SIGINT and the parent's
\* listener had taken no signal, the session is rejected as interrupted
\* and reported as interrupted, not as failed.
C38_ForeignSignalIsInterruption ==
    (/\ sess.wasRunning /\ sess.child = "closed"
     /\ sess.handled = 0 /\ ~sess.wasInterrupted
     /\ sess.status.signal \in {"SIGTERM", "SIGINT"}) =>
        /\ sess.promise = "rejected"
        /\ sess.error.kind = "interrupted"
        /\ sess.reports = <<"interrupted">>

\* the agent was ended by SIGINT, no signal came to the parent, and the
\* run has exited
C38_Witness ==
    /\ pc = "exit1" /\ signals = 0 /\ sess.handled = 0
    /\ sess.status.signal = "SIGINT" /\ sess.killsSent = 0
    /\ sess.reports = <<"interrupted">>

\* C39: a call of canUseRequestChanges with the owner, the name or the PR
\* number missing has returned false, has issued no request, has not
\* started identity resolution and has left the stored identity alone.
C39_MissingArgumentReturnsFalse ==
    \A c \in 1..MaxCalls :
        (/\ calls[c].op = "canUseRequestChanges"
         /\ ~(calls[c].args.owner /\ calls[c].args.name /\ calls[c].args.pr)) =>
            /\ calls[c].returned = "false"
            /\ calls[c].g.idres = "none" /\ calls[c].g.probes = << >>
            /\ requests = << >>
            /\ gh.currentIdentity = NoIdentity

\* the call was made with the owner and the PR number but without the name
C39_Witness ==
    /\ calls[1].op = "canUseRequestChanges"
    /\ calls[1].args = [owner |-> TRUE, name |-> FALSE, pr |-> TRUE]
    /\ calls[1].returned = "false"

=============================================================================
